---- MODULE Spec2Model ----
(***************************************************************************)
(* Model of the chip8-ti68k preprocessor (preprocessor/src/main.rs): one   *)
(* conversion run of main() from reading the ROM to the last write of the  *)
(* calculator variable file, with compress() unrolled one loop iteration   *)
(* per step, followed by the calculator-side decompression of the payload. *)
(* Bytes are integers 0..255; sequences are indexed from 0 through At().   *)
(***************************************************************************)
EXTENDS Integers, Sequences, FiniteSets, TLC

VARIABLES rom, args, pc, err, storage, i, j, len, output,
          header_storage, created, file, checksum, w, dpos, decoded

vars == <<rom, args, pc, err, storage, i, j, len, output,
          header_storage, created, file, checksum, w, dpos, decoded>>

(***************************************************************************)
(* Program constants                                                       *)
(***************************************************************************)
MAJOR_VERSION == 1
MINOR_VERSION == 0
PATCH_VERSION == 0
COMPRESS_FLAG == 255
WINDOW_SIZE == 1024
MAX_COMPRESS_LEN == 63
MAX_ROM_SIZE == 4096
HEADER_SIZE == 91
EXT_LEN == 3
OTH_CH8 == <<0, 99, 104, 56, 0, 248>>

\* Offsets of the ch8_header fields (define_layout!, packed, in order).
FOLDER_OFFSET == 10
NAME_OFFSET == 64
SIZE_OFFSET == 76
DATASIZE_OFFSET == 86
NAME_FIELD_LEN == 8

(***************************************************************************)
(* Bounds of the model                                                     *)
(***************************************************************************)
MaxLen == 4          \* every ROM over Alphabet up to this length is tried
MaxNameLen == 10     \* longest folder / variable name tried
Period == 250        \* period of the long, window-filling ROMs
RunLen == 200        \* length of the all-0xFF ROM
NoisyLen == 635      \* length of the poorly compressible, high-valued ROM

Alphabet == {65, 66, COMPRESS_FLAG}
Calc == {"TI89", "TI92P", "V200"}

(***************************************************************************)
(* Helpers on byte sequences                                               *)
(***************************************************************************)
At(s, k) == s[k + 1]

Min2(a, b) == IF a <= b THEN a ELSE b

Max2(a, b) == IF a >= b THEN a ELSE b

RECURSIVE BitAnd(_, _)
BitAnd(a, b) ==
    IF a = 0 \/ b = 0 THEN 0
    ELSE (IF a % 2 = 1 /\ b % 2 = 1 THEN 1 ELSE 0) + 2 * BitAnd(a \div 2, b \div 2)

RECURSIVE BitOr(_, _)
BitOr(a, b) ==
    IF a = 0 THEN b
    ELSE IF b = 0 THEN a
    ELSE (IF a % 2 = 1 \/ b % 2 = 1 THEN 1 ELSE 0) + 2 * BitOr(a \div 2, b \div 2)

(***************************************************************************)
(* compress(): one iteration of the while loop                             *)
(***************************************************************************)
\* push_literal: the bytes appended for one literal byte
push_literal_noescape(byte) == <<byte>>

push_literal(byte) ==
    IF byte = COMPRESS_FLAG THEN <<COMPRESS_FLAG, 0>> ELSE <<byte>>

\* i.saturating_sub(WINDOW_SIZE)
window_start(pos) == Max2(0, pos - WINDOW_SIZE)

\* window.len() for window = &src[window_start..i]
window_len(pos) == pos - window_start(pos)

\* window.iter().enumerate().filter(|(_, &x)| x == src[i]): the window
\* indices j whose byte equals src[i], in scan order
Candidates(src, pos) ==
    SelectSeq([k \in 1..window_len(pos) |-> k - 1],
              LAMBDA jj : At(src, jj + window_start(pos)) = At(src, pos))

\* src[a..].iter().zip(src[b..].iter()).take_while(|(&x, &y)| x == y).count()
MatchLen(src, a, b) ==
    LET m == Min2(Len(src) - a, Len(src) - b)
    IN  CHOOSE k \in 0..m :
            /\ (k = m \/ At(src, a + k) # At(src, b + k))
            /\ \A t \in 0..(k - 1) : At(src, a + t) = At(src, b + t)

\* the closure given to max_by: compares the lengths of two (j, len) pairs
Compare_strict(a, b) == IF a[2] > b[2] THEN "Greater" ELSE "Less"

Compare(a, b) == IF a[2] >= b[2] THEN "Greater" ELSE "Less"

\* core::cmp::max_by(v1, v2, compare): v1 only when compare says Greater
CmpMaxBy(v1, v2) == IF Compare(v1, v2) = "Greater" THEN v1 ELSE v2

\* Iterator::max_by = reduce(|x, y| cmp::max_by(x, y, compare)) over the
\* items lo..hi in scan order.  The reduction is split in halves to keep the
\* evaluation shallow: cmp::max_by with this closure returns the first of the
\* items of greatest len whichever way the calls are nested.
RECURSIVE Reduce(_, _, _)
Reduce(pairs, lo, hi) ==
    IF lo = hi THEN pairs[lo]
    ELSE LET mid == (lo + hi) \div 2
         IN  CmpMaxBy(Reduce(pairs, lo, mid), Reduce(pairs, mid + 1, hi))

\* the (j, len) pair of lines 152-173, len not yet capped
SelectMatch(src, pos) ==
    LET c == Candidates(src, pos)
        pairs == [k \in 1..Len(c) |->
                    <<c[k], MatchLen(src, c[k] + window_start(pos), pos)>>]
    IN  IF Len(c) = 0 THEN <<0, 0>> ELSE Reduce(pairs, 1, Len(c))

\* the fold of lines 177-180 over a slice
RECURSIVE FoldCost(_, _)
FoldCost(s, a) ==
    IF s = <<>> THEN a
    ELSE FoldCost(Tail(s), a + (IF Head(s) = COMPRESS_FLAG THEN 2 ELSE 1))

\* src[from..].iter().take(n).fold(0, ...)
LiteralCost(src, from, n) ==
    FoldCost(SubSeq(src, from + 1, Min2(from + n, Len(src))), 0)

\* let len = min(len, MAX_COMPRESS_LEN)
CapLen_wide(n) == Min2(n, MAX_COMPRESS_LEN + 1)

CapLen(n) == Min2(n, MAX_COMPRESS_LEN)

\* the threshold test of line 177
WorthToken_low(cost) == 1 < cost

WorthToken(cost) == 3 < cost

\* the three bytes of a back-reference token (lines 182-185)
TokenBytes(offset, n) ==
    << COMPRESS_FLAG,
       BitOr(BitAnd(offset, 768) \div 4, n % 65536) % 256,
       offset % 256 >>

\* (window.len() - j - 1) as u16
TokenOffset(pos, jj) == (window_len(pos) - jj - 1) % 65536

(***************************************************************************)
(* fill_header(): the 91-byte ch8_header record                             *)
(***************************************************************************)
\* overwrite the bytes of h at offsets off .. off + Len(bytes) - 1
WriteAt(h, off, bytes) ==
    [k \in 1..Len(h) |->
        IF k - 1 >= off /\ k - 1 < off + Len(bytes) THEN bytes[k - off] ELSE h[k]]

BE16(v) == << (v \div 256) % 256, v % 256 >>

BE32(v) == << (v \div 16777216) % 256, (v \div 65536) % 256,
              (v \div 256) % 256, v % 256 >>

LE32(v) == << v % 256, (v \div 256) % 256,
              (v \div 65536) % 256, (v \div 16777216) % 256 >>

\* strncpy<N>: byte i of the field is src[i], or 0 past the end of src
strncpy_short(dest, src) ==
    [k \in 1..Len(dest) |-> IF k < Len(src) THEN src[k] ELSE 0]

strncpy(dest, src) ==
    [k \in 1..Len(dest) |-> IF k <= Len(src) THEN src[k] ELSE 0]

\* "**TI89**" for the TI-89, "**TI92P*" for the other two
Signature(calc) ==
    IF calc = "TI89" THEN <<42, 42, 84, 73, 56, 57, 42, 42>>
    ELSE <<42, 42, 84, 73, 57, 50, 80, 42>>

\* (datasize + 3 + ext_len + 3) as u16
DatasizeField_short(datasize, ext_len) == (datasize + 3 + ext_len) % 65536

DatasizeField(datasize, ext_len) == (datasize + 3 + ext_len + 3) % 65536

\* ch8_header::SIZE + datasize + 5 + ext_len; the cast to u32 keeps the low
\* four bytes, which is what LE32 writes
SizeField_short(datasize, ext_len) == HEADER_SIZE + datasize + ext_len

SizeField(datasize, ext_len) == HEADER_SIZE + datasize + 5 + ext_len

\* lines 205-232: everything fill_header writes before the two names
FillFields(h, calc, datasize, ext_len) ==
    LET h1 == WriteAt(h, 88, <<MAJOR_VERSION, MINOR_VERSION, PATCH_VERSION>>)
        h2 == WriteAt(h1, 8, BE16(256))
        h3 == WriteAt(h2, 58, <<1, 0, 82, 0, 0, 0>>)
        h4 == WriteAt(h3, 72, BE32(469762048))
        h5 == WriteAt(h4, 80, <<165, 90, 0, 0, 0, 0>>)
        h6 == WriteAt(h5, DATASIZE_OFFSET, BE16(DatasizeField(datasize, ext_len)))
        h7 == WriteAt(h6, SIZE_OFFSET, LE32(SizeField(datasize, ext_len)))
    IN  WriteAt(h7, 0, Signature(calc))

\* the 8 bytes of a name field of the header
Field(h, off) == SubSeq(h, off + 1, off + NAME_FIELD_LEN)

(***************************************************************************)
(* compute_checksum()                                                      *)
(***************************************************************************)
\* u16::wrapping_add
saturating_add(a, x) == Min2(a + x, 65535)

wrapping_add(a, x) == (a + x) % 65536

\* fold(0u16, wrapping_add) over s[lo..hi], split in halves to keep the
\* evaluation shallow (wrapping addition is associative)
RECURSIVE WrapSum(_, _, _)
WrapSum(s, lo, hi) ==
    IF lo > hi THEN 0
    ELSE IF lo = hi THEN wrapping_add(0, s[lo])
    ELSE LET mid == (lo + hi) \div 2
         IN  wrapping_add(WrapSum(s, lo, mid), WrapSum(s, mid + 1, hi))

to_le_bytes(v) == << v % 256, (v \div 256) % 256 >>

\* data is the flattened list of slices
compute_checksum(data) == to_le_bytes(WrapSum(data, 1, Len(data)))

\* the slices main passes: header from the datasize field on, payload, trailer
ChecksumInput(h, payload) ==
    SubSeq(h, DATASIZE_OFFSET + 1, Len(h)) \o payload \o OTH_CH8

\* the four buffers handed to writev, in order
Bufs == <<header_storage, output, OTH_CH8, checksum>>

(***************************************************************************)
(* Inputs                                                                  *)
(***************************************************************************)
ShortRoms == UNION {[1..n -> Alphabet] : n \in 0..MaxLen}

Periodic(n) == [k \in 1..n |-> 1 + ((k - 1) % Period)]

FlagRun == [k \in 1..RunLen |-> COMPRESS_FLAG]

Noisy == [k \in 1..NoisyLen |->
            128 + ((((k - 1) % 127) * (1 + ((k - 1) \div 127))) % 127)]

TieRom == <<255, 255, 65, 255, 255, 66, 255, 255>>

LongRoms == {Periodic(MAX_ROM_SIZE), Periodic(MAX_ROM_SIZE + 1),
             FlagRun, Noisy, TieRom}

NameOfLen(n) == [k \in 1..n |-> 96 + k]

Names == {NameOfLen(n) : n \in {0, 4, NAME_FIELD_LEN, MaxNameLen}}

ArgSets == [calc : Calc, folder : Names, name : Names]

DefaultArgs == [calc |-> "V200", folder |-> <<109, 97, 105, 110>>,
                name |-> NameOfLen(MaxNameLen)]

(***************************************************************************)
(* State machine of main()                                                 *)
(***************************************************************************)
Init ==
    /\ \/ rom \in ShortRoms /\ args \in ArgSets
       \/ rom \in LongRoms /\ args = DefaultArgs
    /\ pc = "open"
    /\ err = "none"
    /\ storage = <<>>
    /\ i = 0
    /\ j = 0
    /\ len = 0
    /\ output = <<>>
    /\ header_storage = [k \in 1..HEADER_SIZE |-> 0]
    /\ created = FALSE
    /\ file = <<>>
    /\ checksum = <<0, 0>>
    /\ w = 0
    /\ dpos = 0
    /\ decoded = <<>>

\* File::open + read_to_end succeed
ReadRom ==
    /\ pc = "open"
    /\ storage' = rom
    /\ pc' = "check"
    /\ UNCHANGED <<rom, args, err, i, j, len, output, header_storage,
                   created, file, checksum, w, dpos, decoded>>

\* File::open or read_to_end fails: the ? returns the I/O error
ReadFail ==
    /\ pc = "open"
    /\ pc' = "failed"
    /\ err' = "Io"
    /\ UNCHANGED <<rom, args, storage, i, j, len, output, header_storage,
                   created, file, checksum, w, dpos, decoded>>

\* storage.len() > 0x1000
TooLarge_ge(n) == n >= MAX_ROM_SIZE

TooLarge(n) == n > MAX_ROM_SIZE

\* if storage.len() > 0x1000 { return Err(InvalidData) }
CheckSize ==
    /\ pc = "check"
    /\ IF TooLarge(Len(storage))
       THEN pc' = "failed" /\ err' = "InvalidData"
       ELSE pc' = "compress" /\ err' = err
    /\ UNCHANGED <<rom, args, storage, i, j, len, output, header_storage,
                   created, file, checksum, w, dpos, decoded>>

\* one iteration of while i < src.len()
CompressStep ==
    /\ pc = "compress"
    /\ i < Len(storage)
    /\ \E sel \in {SelectMatch(storage, i)} :
       LET n == CapLen(sel[2])
           cost == LiteralCost(storage, sel[1] + window_start(i), n)
       IN  /\ j' = sel[1]
           /\ len' = n
           /\ IF WorthToken(cost)
              THEN /\ output' = output \o TokenBytes(TokenOffset(i, sel[1]), n)
                   /\ i' = i + n
              ELSE /\ output' = output \o push_literal(At(storage, i))
                   /\ i' = i + 1
    /\ UNCHANGED <<rom, args, pc, err, storage, header_storage,
                   created, file, checksum, w, dpos, decoded>>

\* the loop ends and compress returns output
CompressReturn ==
    /\ pc = "compress"
    /\ i >= Len(storage)
    /\ pc' = "fill_header"
    /\ UNCHANGED <<rom, args, err, storage, i, j, len, output, header_storage,
                   created, file, checksum, w, dpos, decoded>>

\* fill_header up to the signature
FillHeaderFields ==
    /\ pc = "fill_header"
    /\ header_storage' = FillFields(header_storage, args.calc, Len(output), EXT_LEN)
    /\ pc' = "strncpy_folder"
    /\ UNCHANGED <<rom, args, err, storage, i, j, len, output,
                   created, file, checksum, w, dpos, decoded>>

\* strncpy(header.folder_mut(), folder)
StrncpyFolder ==
    /\ pc = "strncpy_folder"
    /\ header_storage' = WriteAt(header_storage, FOLDER_OFFSET,
                            strncpy(Field(header_storage, FOLDER_OFFSET), args.folder))
    /\ pc' = "strncpy_name"
    /\ UNCHANGED <<rom, args, err, storage, i, j, len, output,
                   created, file, checksum, w, dpos, decoded>>

\* strncpy(header.name_mut(), name)
StrncpyName ==
    /\ pc = "strncpy_name"
    /\ header_storage' = WriteAt(header_storage, NAME_OFFSET,
                            strncpy(Field(header_storage, NAME_OFFSET), args.name))
    /\ pc' = "create"
    /\ UNCHANGED <<rom, args, err, storage, i, j, len, output,
                   created, file, checksum, w, dpos, decoded>>

\* File::create(output) succeeds: the file exists and is empty
CreateFile ==
    /\ pc = "create"
    /\ created' = TRUE
    /\ file' = <<>>
    /\ pc' = "checksum"
    /\ UNCHANGED <<rom, args, err, storage, i, j, len, output, header_storage,
                   checksum, w, dpos, decoded>>

\* File::create(output) fails
CreateFail ==
    /\ pc = "create"
    /\ pc' = "failed"
    /\ err' = "Io"
    /\ UNCHANGED <<rom, args, storage, i, j, len, output, header_storage,
                   created, file, checksum, w, dpos, decoded>>

\* the argument list of writev is built: compute_checksum runs
ComputeChecksum ==
    /\ pc = "checksum"
    /\ checksum' = compute_checksum(ChecksumInput(header_storage, output))
    /\ w' = 0
    /\ pc' = "writev"
    /\ UNCHANGED <<rom, args, err, storage, i, j, len, output, header_storage,
                   created, file, dpos, decoded>>

\* dest.write_all(buf) succeeds for the next buffer
WriteBuf ==
    /\ pc = "writev"
    /\ w < Len(Bufs)
    /\ file' = file \o Bufs[w + 1]
    /\ w' = w + 1
    /\ pc' = IF w + 1 = Len(Bufs) THEN "done" ELSE "writev"
    /\ UNCHANGED <<rom, args, err, storage, i, j, len, output, header_storage,
                   created, checksum, dpos, decoded>>

\* how many bytes of a buffer write_all got out before its error
PartialCuts(buf) == {0, Len(buf) \div 2}

\* dest.write_all(buf) fails part-way: the ? returns, the file stays as it is
WriteFail ==
    /\ pc = "writev"
    /\ w < Len(Bufs)
    /\ Len(Bufs[w + 1]) > 0
    /\ \E cut \in PartialCuts(Bufs[w + 1]) :
          file' = file \o SubSeq(Bufs[w + 1], 1, cut)
    /\ pc' = "failed"
    /\ err' = "Io"
    /\ UNCHANGED <<rom, args, storage, i, j, len, output, header_storage,
                   created, checksum, w, dpos, decoded>>

(***************************************************************************)
(* The calculator's decompressor, run on the payload of a complete file    *)
(***************************************************************************)
Payload(f) == SubSeq(f, HEADER_SIZE + 1, Len(f) - Len(OTH_CH8) - 2)

\* copy n bytes one at a time from dist bytes before the end of out
RECURSIVE CopyBack(_, _, _)
CopyBack(out, dist, n) ==
    IF n = 0 THEN out
    ELSE CopyBack(Append(out, IF Len(out) - dist >= 0
                              THEN out[Len(out) - dist + 1] ELSE -1),
                  dist, n - 1)

DecodeStep ==
    /\ pc = "done"
    /\ dpos < Len(Payload(file))
    /\ LET p == Payload(file)
           b0 == At(p, dpos)
       IN  IF b0 # COMPRESS_FLAG
           THEN decoded' = Append(decoded, b0) /\ dpos' = dpos + 1
           ELSE IF dpos + 1 < Len(p) /\ At(p, dpos + 1) = 0
           THEN decoded' = Append(decoded, COMPRESS_FLAG) /\ dpos' = dpos + 2
           ELSE IF dpos + 2 < Len(p)
           THEN /\ decoded' = CopyBack(decoded,
                                  (At(p, dpos + 1) \div 64) * 256 + At(p, dpos + 2) + 1,
                                  At(p, dpos + 1) % 64)
                /\ dpos' = dpos + 3
           ELSE decoded' = Append(decoded, -1) /\ dpos' = Len(p)
    /\ UNCHANGED <<rom, args, pc, err, storage, i, j, len, output, header_storage,
                   created, file, checksum, w>>

Next ==
    \/ ReadRom
    \/ ReadFail
    \/ CheckSize
    \/ CompressStep
    \/ CompressReturn
    \/ FillHeaderFields
    \/ StrncpyFolder
    \/ StrncpyName
    \/ CreateFile
    \/ CreateFail
    \/ ComputeChecksum
    \/ WriteBuf
    \/ WriteFail
    \/ DecodeStep

Spec == Init /\ [][Next]_vars

(***************************************************************************)
(* Properties                                                              *)
(***************************************************************************)
\* readers of the header fields as the calculator parses them
U16BE(f, off) == At(f, off) * 256 + At(f, off + 1)

U32LE(f, off) ==
    At(f, off) + 256 * At(f, off + 1) + 65536 * At(f, off + 2)
        + 16777216 * At(f, off + 3)

\* plain (non-wrapping) sum of s[lo..hi]
RECURSIVE PlainSum(_, _, _)
PlainSum(s, lo, hi) ==
    IF lo > hi THEN 0
    ELSE IF lo = hi THEN s[lo]
    ELSE LET mid == (lo + hi) \div 2
         IN  PlainSum(s, lo, mid) + PlainSum(s, mid + 1, hi)

\* number of flag bytes among the first n bytes of s
FlagCount(s, n) == Cardinality({k \in 1..n : s[k] = COMPRESS_FLAG})

\* fill_header has returned and main has not failed since
HeaderBuilt == pc \in {"create", "checksum", "writev", "done"}

\* the run of main is over
Terminated == pc \in {"done", "failed"}

\* the calculator has decoded the whole payload
DecodeFinished == pc = "done" /\ dpos >= Len(Payload(file))

\* the bytes a complete output file holds
CompleteFile == header_storage \o output \o OTH_CH8 \o checksum

\* C1: decoding the compressed stream with the inverse token scheme gives
\* back the raw image exactly, including copies that read bytes the same
\* copy has just produced.
C1_RoundTrip == DecodeFinished => decoded = storage

C1_Witness ==
    /\ DecodeFinished
    /\ decoded = storage
    /\ Len(storage) = MAX_ROM_SIZE
    /\ Len(output) < Len(storage)

\* C2: an image longer than 4096 bytes ends in the invalid-input-size error
\* before compression and before the output file is created; an image of
\* exactly 4096 bytes is not rejected for its size.
C2_SizeBound ==
    /\ Len(rom) > MAX_ROM_SIZE =>
          /\ pc \in {"open", "check", "failed"}
          /\ ~created
          /\ i = 0 /\ output = <<>>
          /\ (pc = "failed" /\ storage = rom => err = "InvalidData")
    /\ Len(rom) = MAX_ROM_SIZE => err # "InvalidData"

C2_Witness ==
    /\ pc = "failed"
    /\ Len(storage) = MAX_ROM_SIZE + 1
    /\ err = "InvalidData"
    /\ ~created

\* C3: when the run is over the output path holds either the complete
\* stream header, payload, trailer, checksum or no file at all.
C3_AllOrNothing == Terminated => (~created \/ file = CompleteFile)

\* C4: in a complete file the size field is the length of the file and the
\* datasize field is the number of bytes from the end of that field to the
\* end of the trailer; the image [0x41] gives payload [0x41], 10 and 100.
C4_HeaderSizes ==
    pc = "done" =>
       /\ Len(file) = HEADER_SIZE + Len(output) + Len(OTH_CH8) + 2
       /\ U32LE(file, SIZE_OFFSET) = Len(file)
       /\ U32LE(file, SIZE_OFFSET) = HEADER_SIZE + Len(output) + 5 + 3
       /\ U16BE(file, DATASIZE_OFFSET) = Len(file) - (DATASIZE_OFFSET + 2) - 2
       /\ U16BE(file, DATASIZE_OFFSET) = Len(output) + 3 + 3 + 3
       /\ storage = <<65>> =>
             /\ output = <<65>>
             /\ U16BE(file, DATASIZE_OFFSET) = 10
             /\ U32LE(file, SIZE_OFFSET) = 100

C4_Witness ==
    /\ pc = "done"
    /\ storage = <<65>>
    /\ U16BE(file, DATASIZE_OFFSET) = 10
    /\ U32LE(file, SIZE_OFFSET) = 100

\* C5 as stated: the empty image compresses to the empty stream and its
\* header has datasize = 6 and size = 96.
C5_EmptyInput_Original ==
    HeaderBuilt /\ rom = <<>> =>
       /\ output = <<>>
       /\ U16BE(header_storage, DATASIZE_OFFSET) = 6
       /\ U32LE(header_storage, SIZE_OFFSET) = 96

\* C5 amended: the empty image compresses to the empty stream and its
\* header has datasize = 9 and size = 99.
C5_EmptyInput ==
    HeaderBuilt /\ rom = <<>> =>
       /\ output = <<>>
       /\ U16BE(header_storage, DATASIZE_OFFSET) = 9
       /\ U32LE(header_storage, SIZE_OFFSET) = 99

C5_Witness ==
    /\ HeaderBuilt
    /\ rom = <<>>
    /\ storage = <<>>
    /\ output = <<>>

\* C6: the last two bytes of a complete file are the little-endian encoding
\* of the plain sum, modulo 65536, of the bytes from the datasize field of
\* the filled header to the end of the trailer.
C6_Checksum ==
    pc = "done" =>
       LET sum == PlainSum(file, DATASIZE_OFFSET + 1, Len(file) - 2)
       IN  /\ SubSeq(file, 1, HEADER_SIZE) = header_storage
           /\ At(file, Len(file) - 2) = (sum % 65536) % 256
           /\ At(file, Len(file) - 1) = (sum % 65536) \div 256

C6_Witness ==
    /\ pc = "done"
    /\ PlainSum(file, DATASIZE_OFFSET + 1, Len(file) - 2) > 65535

\* the step fills the 8-byte field at off with the first min(8, len) bytes
\* of name, zero bytes after them, and changes nothing else of the header
ClipsInto(off, name) ==
    /\ \A k \in 0..(NAME_FIELD_LEN - 1) :
          At(header_storage', off + k) = IF k < Len(name) THEN At(name, k) ELSE 0
    /\ \A k \in 0..(HEADER_SIZE - 1) :
          (k < off \/ k >= off + NAME_FIELD_LEN) =>
              At(header_storage', k) = At(header_storage, k)

\* C7: strncpy writes the first min(8, len) bytes of the folder or variable
\* name, pads with zero bytes up to 8, and changes no byte outside the field.
C7_NameClipping ==
    [][ /\ pc = "strncpy_folder" => ClipsInto(FOLDER_OFFSET, args.folder)
        /\ pc = "strncpy_name" => ClipsInto(NAME_OFFSET, args.name) ]_vars

C7_Witness ==
    /\ pc = "create"
    /\ Len(args.name) > NAME_FIELD_LEN
    /\ Len(args.folder) < NAME_FIELD_LEN
    /\ Field(header_storage, NAME_OFFSET) = SubSeq(args.name, 1, NAME_FIELD_LEN)
    /\ Field(header_storage, FOLDER_OFFSET)
          = args.folder \o [k \in 1..(NAME_FIELD_LEN - Len(args.folder)) |-> 0]

\* the window indices whose byte equals the byte at pos
CandidateSet(src, pos) ==
    {jj \in 0..(window_len(pos) - 1) : At(src, jj + window_start(pos)) = At(src, pos)}

\* C8: the selected window index has the greatest uncapped match length of
\* all candidates, and is the smallest index among those of that length.
C8_TieBreak ==
    [][ pc = "compress" /\ i < Len(storage) /\ CandidateSet(storage, i) # {} =>
          /\ j' \in CandidateSet(storage, i)
          /\ \A k \in CandidateSet(storage, i) :
                LET lk == MatchLen(storage, k + window_start(i), i)
                    lj == MatchLen(storage, j' + window_start(i), i)
                IN  lk <= lj /\ (lk = lj => j' <= k) ]_vars

C8_Witness ==
    /\ pc = "compress"
    /\ storage = TieRom
    /\ i = 8
    /\ j = 0
    /\ len = 2
    /\ MatchLen(storage, 0, 6) = MatchLen(storage, 3, 6)

\* C9: the compressed length never exceeds the consumed length plus the
\* number of flag bytes consumed, so it is at most 8192 and the datasize and
\* size fields hold c + 9 and c + 99 without truncation.
C9_NoOverflow ==
    /\ i <= Len(storage)
    /\ Len(output) <= i + FlagCount(storage, i)
    /\ Len(output) <= 2 * MAX_ROM_SIZE
    /\ HeaderBuilt =>
          /\ U16BE(header_storage, DATASIZE_OFFSET) = Len(output) + 9
          /\ U32LE(header_storage, SIZE_OFFSET) = Len(output) + 99

C9_Witness ==
    /\ HeaderBuilt
    /\ Len(storage) > 1
    /\ Len(output) = 2 * Len(storage)

\* C10: every loop iteration advances i; a back-reference token has offset
\* in 0..1023 and length in 2..63, a second byte that is not 0x00, encodes
\* exactly that offset and length, and does not reach past the input.
C10_TokenWellFormed ==
    [][ pc = "compress" /\ i < Len(storage) =>
          /\ i' > i
          /\ Len(output') = Len(output) + 3 =>
                LET off == window_len(i) - j' - 1
                    b1 == At(output', Len(output) + 1)
                    b2 == At(output', Len(output) + 2)
                IN  /\ off \in 0..1023
                    /\ len' \in 2..63
                    /\ At(output', Len(output)) = COMPRESS_FLAG
                    /\ b1 # 0
                    /\ b1 % 64 = len'
                    /\ (b1 \div 64) * 256 + b2 = off
                    /\ i + len' <= Len(storage)
                    /\ i' = i + len' ]_vars

C10_Witness ==
    /\ pc = "compress"
    /\ Len(storage) = MAX_ROM_SIZE
    /\ i > WINDOW_SIZE
    /\ len = MAX_COMPRESS_LEN
    /\ window_len(i - len) - j - 1 > 255
    /\ At(output, Len(output) - 3) = COMPRESS_FLAG
    /\ At(output, Len(output) - 2) \div 64 > 0

====
